---- MODULE Spec2Model ----
(***************************************************************************)
(* A model of bank_application/database.py: class CompleteDatabase.        *)
(*                                                                         *)
(* State: the two tables of complete_bank_manager.db (settings and         *)
(* bank_cards, with sqlite's AUTOINCREMENT counter), the in-process        *)
(* attribute self.master_password, the wall clock read by datetime.now(),  *)
(* and a record `last` of the most recent call with its outcome.           *)
(*                                                                         *)
(* Values.  A Python str is modelled as [chars |-> <<c1, ..., cn>>], a     *)
(* sequence of one-character strings; Python's None as the record None.    *)
(* PBKDF2-HMAC-SHA256 is modelled as an injective function of (password,   *)
(* salt), Fernet as authenticated encryption: a token is a record naming   *)
(* the key and plaintext it was made from and its random IV, decryption    *)
(* under any other key fails (InvalidToken), and a token is a str of at    *)
(* least 100 characters that begins "gAAA".                                *)
(***************************************************************************)
EXTENDS Integers, Sequences, FiniteSets, TLC

VARIABLES
    master_password,  \* self.master_password: None or a str
    settings,         \* the value of settings row "password_hash", None when there is none
    cards,            \* table bank_cards: id |-> row
    seq,              \* sqlite_sequence of bank_cards (AUTOINCREMENT never reuses an id)
    clock,            \* the reading of datetime.now() at the next write of a row
    last,             \* the most recent call: [op, args, ret]
    set_password,     \* history: the argument of the latest set_master_password, or None
    written,          \* history: id |-> the arguments and session key of the latest write of the row
    rows_read,        \* history: worksheet rows import_from_excel has read so far
    issued            \* history: the ids add_card has returned so far

vars == <<master_password, settings, cards, seq, clock, last, set_password, written, rows_read,
         issued>>

(* ------------------------------ bounds -------------------------------- *)

\* writes of a row (by add_card or update_card) before the model stops writing
MaxClock == 2

\* worksheet rows the model imports in all, over every call of import_from_excel
MaxRows == 2

(* ------------------------------ values -------------------------------- *)

None == [none |-> TRUE]

Str(c) == [chars |-> c]

Empty == Str(<<>>)

IsToken(v) == DOMAIN v = {"key", "data", "iv"}

Raise(type, msg) == [exc |-> type, msg |-> msg]

Return(v) == [val |-> v]

Raised(r) == DOMAIN r = {"exc", "msg"}

Returned(r) == DOMAIN r = {"val"}

\* Python truthiness of a str-or-None value: `not x` is true of None and of ""
Truthy(v) == v # None /\ v # Empty

NotAuthenticated == Raise("ValueError", "Master password not set or logged in")

SetupIncomplete == Raise("ValueError", "Setup not complete")

(* --------------------------- str operations --------------------------- *)

DigitChars == <<"0", "1", "2", "3", "4", "5", "6", "7", "8", "9">>

IsDigit(c) == \E i \in 1..10 : DigitChars[i] = c

DigitVal(c) == (CHOOSE i \in 1..10 : DigitChars[i] = c) - 1

IsSpace(c) == c \in {" ", "\t", "\n"}

RECURSIVE LStripChars(_)
LStripChars(c) ==
    IF c # <<>> /\ IsSpace(Head(c)) THEN LStripChars(Tail(c)) ELSE c

RECURSIVE RStripChars(_)
RStripChars(c) ==
    IF c # <<>> /\ IsSpace(c[Len(c)]) THEN RStripChars(SubSeq(c, 1, Len(c) - 1)) ELSE c

\* str.strip()
Strip(s) == Str(RStripChars(LStripChars(s.chars)))

\* ''.join(filter(str.isdigit, s))
DigitsOnly(s) == Str(SelectSeq(s.chars, IsDigit))

\* the length of a Fernet token over n plaintext bytes: urlsafe base64 of
\* version(1) + timestamp(8) + iv(16) + AES-CBC/PKCS7 ciphertext + hmac(32)
TokenLen(n) == 4 * ((57 + 16 * ((n \div 16) + 1) + 2) \div 3)

\* len(s)
StrLen(s) == IF IsToken(s) THEN TokenLen(Len(s.data.chars)) ELSE Len(s.chars)

\* s[:4]; a Fernet token starts with base64 of 0x80 and the timestamp's zero high bytes
First4(s) ==
    IF IsToken(s) THEN <<"g", "A", "A", "A">>
    ELSE SubSeq(s.chars, 1, IF Len(s.chars) < 4 THEN Len(s.chars) ELSE 4)

\* s[-4:]; the last characters of a token are those of its HMAC, a function of the token
Last4(s) ==
    IF IsToken(s) THEN [i \in 1..4 |-> <<"hmac", s, i>>]
    ELSE SubSeq(s.chars, IF Len(s.chars) < 4 THEN 1 ELSE Len(s.chars) - 3, Len(s.chars))

SEPARATOR == <<" ", "*", "*", "*", "*", " ", "*", "*", "*", "*", " ">>

PLACEHOLDER == Str(<<"*", "*", "*", "*", " ", "*", "*", "*", "*", " ",
                     "*", "*", "*", "*", " ", "*", "*", "*", "*">>)

\* mask_card_number
mask_card_number(card_number) ==
    IF StrLen(card_number) >= 16
    THEN Str(First4(card_number) \o SEPARATOR \o Last4(card_number))
    ELSE PLACEHOLDER

\* mask_cvv
mask_cvv(cvv) ==
    IF StrLen(cvv) = 3 THEN Str(<<"*", "*", "*">>) ELSE Str(<<"*", "*">>)

(* ------------------------------ crypto -------------------------------- *)

\* values secrets.token_hex(16) may draw
Salts == {1, 2}

\* IVs os.urandom may draw for a direct call of encrypt_data
Nonces == {1, 2}

\* hashlib.pbkdf2_hmac('sha256', password, salt, 100000).hex()
pbkdf2_hmac(password, salt) == [pbkdf2 |-> password, salt |-> salt]

\* f"{salt}:{password_hash}"
StoredValue(salt, password_hash) == <<salt, ":", password_hash>>

\* value.split(':'): the salt and the hash are hex strings, so there are two parts
SplitColon(value) == <<value[1], value[3]>>

\* base64.urlsafe_b64encode(PBKDF2HMAC(SHA256, 32, salt, 100000).derive(password))
DeriveKey(password, salt) == [kdf |-> password, salt |-> salt]

\* Fernet(key).encrypt(data)
FernetEncrypt(key, data, iv) == [key |-> key, data |-> data, iv |-> iv]

\* Fernet(key).decrypt(token): the plaintext, or InvalidToken
FernetDecrypt(key, token) ==
    IF IsToken(token) /\ token.key = key
    THEN Return(token.data)
    ELSE Raise("InvalidToken", "")

\* _get_encryption_key
get_encryption_key ==
    IF ~Truthy(master_password) THEN NotAuthenticated
    ELSE IF settings = None THEN SetupIncomplete
    ELSE Return(DeriveKey(master_password, SplitColon(settings)[1]))

\* encrypt_data
encrypt_data(data, iv) ==
    IF ~Truthy(data) THEN Return(Empty)
    ELSE IF Raised(get_encryption_key) THEN get_encryption_key
    ELSE Return(FernetEncrypt(get_encryption_key.val, data, iv))

\* a decrypt_data whose fallback returns "" instead of its argument
decrypt_data_blank_fallback(encrypted_data) ==
    IF ~Truthy(encrypted_data) THEN Return(Empty)
    ELSE IF Raised(get_encryption_key) THEN Return(Empty)
    ELSE IF Raised(FernetDecrypt(get_encryption_key.val, encrypted_data))
         THEN Return(Empty)
    ELSE Return(FernetDecrypt(get_encryption_key.val, encrypted_data).val)

\* a decrypt_data that returns its argument without decrypting it
decrypt_data_undecoded(encrypted_data) ==
    IF ~Truthy(encrypted_data) THEN Return(Empty) ELSE Return(encrypted_data)

\* a decrypt_data that opens every token, whatever the session holds
decrypt_data_any_session(encrypted_data) ==
    IF ~Truthy(encrypted_data) THEN Return(Empty)
    ELSE IF IsToken(encrypted_data) THEN Return(encrypted_data.data)
    ELSE Return(encrypted_data)

\* decrypt_data: every exception of the try block ends in `return encrypted_data`
decrypt_data(encrypted_data) ==
    IF ~Truthy(encrypted_data) THEN Return(Empty)
    ELSE IF Raised(get_encryption_key) THEN Return(encrypted_data)
    ELSE IF Raised(FernetDecrypt(get_encryption_key.val, encrypted_data))
         THEN Return(encrypted_data)
    ELSE Return(FernetDecrypt(get_encryption_key.val, encrypted_data).val)

(* --------------------------- sample inputs ---------------------------- *)

\* candidate master passwords: "", "a", "b"
Passwords == {Empty, Str(<<"a">>), Str(<<"b">>)}

Account16 == Str(<<"4", "1", "1", "1", "2", "2", "2", "2", "3", "3", "3", "3", "4", "4", "4", "4">>)

Atm16 == Str(<<"5", "5", "0", "0", "6", "6", "0", "0", "7", "7", "0", "0", "8", "8", "0", "0">>)

Account5 == Str(<<"1", "2", "3", "4", "5">>)

Pin3 == Str(<<"1", "2", "3">>)

Pin4 == Str(<<"4", "3", "2", "1">>)

Cvv3 == Str(<<"7", "8", "9">>)

Date2024 == Str(<<"2", "0", "2", "4", "-", "0", "1", "-", "0", "1">>)

Date2029 == Str(<<"2", "0", "2", "9", "-", "1", "2", "-", "3", "1">>)

SensitiveFields == <<"account_number", "atm_number", "pin", "cvv">>

PlainFields ==
    {"bank_name", "branch_name", "ifsc_code", "validity_start", "validity_end",
     "card_type", "card_network", "family_member"}

InputFields == PlainFields \cup {SensitiveFields[k] : k \in 1..4}

\* all four sensitive fields set, the numbers 16 characters long, PIN and CVV 3
FullCard ==
    [bank_name |-> Str(<<"S", "B", "I">>), branch_name |-> Str(<<"M">>),
     ifsc_code |-> Str(<<"S", "1">>), account_number |-> Account16,
     atm_number |-> Atm16, pin |-> Pin3, validity_start |-> Date2024,
     validity_end |-> Date2029, cvv |-> Cvv3, card_type |-> Str(<<"D">>),
     card_network |-> Str(<<"R">>), family_member |-> Str(<<"X">>)]

\* no account number, a short ATM number, a 4-character PIN and no CVV
PartialCard ==
    [FullCard EXCEPT !.bank_name = Str(<<"H">>), !.account_number = Empty,
                     !.atm_number = Account5, !.pin = Pin4, !.cvv = Empty,
                     !.family_member = Str(<<"Y">>)]

CardInputs == {FullCard, PartialCard}

\* ids a caller may name: every id assigned so far, and the next one
CardIds == 1..(seq + 1)

\* arguments tried on encrypt_data
PlainSamples == {Empty, Pin3}

(* -------------------------- the constructor --------------------------- *)

Call(op, args, ret) == [op |-> op, args |-> args, ret |-> ret]

\* __init__ / _init_database on a fresh database file
Init ==
    /\ master_password \in {None} \cup Passwords
    /\ settings = None
    /\ cards = <<>>
    /\ seq = 0
    /\ clock = 0
    /\ last = Call("__init__", <<master_password>>, Return(None))
    /\ set_password = None
    /\ rows_read = 0
    /\ issued = {}
    /\ written = <<>>

\* __init__ / _init_database in a new process over the existing database file
Reopen(password) ==
    /\ master_password' = password
    /\ last' = Call("__init__", <<password>>, Return(None))
    /\ UNCHANGED <<settings, cards, seq, clock, set_password, rows_read, written, issued>>

(* --------------------------- Auth Verifier ---------------------------- *)

\* set_master_password
set_master_password(password, salt) ==
    /\ settings' = StoredValue(salt, pbkdf2_hmac(password, salt))
    /\ master_password' = password
    /\ set_password' = password
    /\ last' = Call("set_master_password", <<password>>, Return(None))
    /\ UNCHANGED <<cards, seq, clock, written, rows_read, issued>>

\* a check that compares the stored salt only, whatever the candidate password
HashMatchesAnyPassword(password) ==
    SplitColon(settings)[2].salt = SplitColon(settings)[1]

\* the comparison of check_master_password, line 106
HashMatches(password) ==
    pbkdf2_hmac(password, SplitColon(settings)[1]) = SplitColon(settings)[2]

\* a check that stores the candidate before it compares the hashes
SessionAfterCheckEager(password, ok) == password

\* self.master_password after check_master_password(password) returned ok
SessionAfterCheck(password, ok) == IF ok THEN password ELSE master_password

\* check_master_password
check_master_password(password) ==
    LET ok == settings # None /\ HashMatches(password) IN
    /\ master_password' = SessionAfterCheck(password, ok)
    /\ last' = Call("check_master_password", <<password>>, Return(ok))
    /\ UNCHANGED <<settings, cards, seq, clock, set_password, rows_read, written, issued>>

(* ---------------------------- Field Cipher ---------------------------- *)

\* a call of encrypt_data
EncryptDataCall(data, iv) ==
    /\ last' = Call("encrypt_data", <<data>>, encrypt_data(data, iv))
    /\ UNCHANGED <<master_password, settings, cards, seq, clock, set_password, rows_read, written, issued>>

\* what a caller can hold to decrypt: sample text, a stored column, a token just made
Decryptable ==
    PlainSamples
    \cup {cards[i][SensitiveFields[k]] : i \in DOMAIN cards, k \in 1..4}
    \cup (IF last.op = "encrypt_data" /\ Returned(last.ret) THEN {last.ret.val} ELSE {})

\* a call of decrypt_data
DecryptDataCall(encrypted_data) ==
    /\ last' = Call("decrypt_data", <<encrypted_data>>, decrypt_data(encrypted_data))
    /\ UNCHANGED <<master_password, settings, cards, seq, clock, set_password, rows_read, written, issued>>

(* -------------------------- Credential Store -------------------------- *)

\* the four encrypt_data calls of add_card / update_card, in the order of the code
EncryptSensitive(f, now) ==
    [k \in 1..4 |-> encrypt_data(f[SensitiveFields[k]], <<now, k>>)]

\* the exception that leaves the handler: that of the first call that raises
FirstRaised(enc) ==
    enc[CHOOSE k \in 1..4 : Raised(enc[k]) /\ \A j \in 1..(k - 1) : ~Raised(enc[j])]

\* the VALUES tuple of the INSERT of add_card
InsertValues(f, enc, now) ==
    [bank_name |-> f.bank_name, branch_name |-> f.branch_name,
     ifsc_code |-> f.ifsc_code, account_number |-> enc[1].val,
     atm_number |-> enc[2].val, pin |-> enc[3].val,
     validity_start |-> f.validity_start, validity_end |-> f.validity_end,
     cvv |-> enc[4].val, card_type |-> f.card_type,
     card_network |-> f.card_network, family_member |-> f.family_member,
     created_at |-> now, updated_at |-> now]

\* the arguments of a write and the key of its session, kept for the properties
WriteRecord(f) == [inputs |-> f, key |-> get_encryption_key]

Noted(w, id, f) ==
    [i \in DOMAIN w \cup {id} |-> IF i = id THEN WriteRecord(f) ELSE w[i]]

\* the part of the state add_card works on
Store == [cards |-> cards, seq |-> seq, clock |-> clock, written |-> written,
          issued |-> issued]

\* the rowid of a table without AUTOINCREMENT: one more than the largest id in the table
lastrowid_of_largest_stored(st) ==
    IF DOMAIN st.cards = {} THEN 1
    ELSE (CHOOSE i \in DOMAIN st.cards : \A j \in DOMAIN st.cards : j <= i) + 1

\* cursor.lastrowid after the INSERT: AUTOINCREMENT gives the row the id after the
\* largest the table ever held
lastrowid(st) == st.seq + 1

\* INSERT INTO bank_cards
InsertRow(st, values) ==
    [i \in DOMAIN st.cards \cup {lastrowid(st)} |->
        IF i = lastrowid(st)
        THEN [c \in DOMAIN values \cup {"id"} |-> IF c = "id" THEN lastrowid(st) ELSE values[c]]
        ELSE st.cards[i]]

\* add_card on store st: the store it leaves and what it returns or raises
AddCardOutcome(st, f) ==
    LET enc == EncryptSensitive(f, st.clock) IN
    IF \E k \in 1..4 : Raised(enc[k])
    THEN [store |-> st, ret |-> FirstRaised(enc)]
    ELSE [store |-> [cards |-> InsertRow(st, InsertValues(f, enc, st.clock)),
                     seq |-> lastrowid(st),
                     clock |-> st.clock + 1,
                     written |-> Noted(st.written, lastrowid(st), f),
                     issued |-> st.issued \cup {lastrowid(st)}],
          ret |-> Return(lastrowid(st))]

\* add_card
add_card(f) ==
    /\ clock < MaxClock
    /\ \E out \in {AddCardOutcome(Store, f)} :
          /\ cards' = out.store.cards
          /\ seq' = out.store.seq
          /\ clock' = out.store.clock
          /\ written' = out.store.written
          /\ issued' = out.store.issued
          /\ last' = Call("add_card", <<f>>, out.ret)
    /\ UNCHANGED <<master_password, settings, set_password, rows_read>>

\* an UPDATE that binds the cvv argument instead of enc_cvv
UpdateValuesPlainCvv(row, f, enc, now) ==
    [row EXCEPT !.bank_name = f.bank_name, !.branch_name = f.branch_name,
                !.ifsc_code = f.ifsc_code, !.account_number = enc[1].val,
                !.atm_number = enc[2].val, !.pin = enc[3].val,
                !.validity_start = f.validity_start, !.validity_end = f.validity_end,
                !.cvv = f.cvv, !.card_type = f.card_type,
                !.card_network = f.card_network, !.family_member = f.family_member,
                !.updated_at = now]

\* the SET list of the UPDATE of update_card
UpdateValues(row, f, enc, now) ==
    [row EXCEPT !.bank_name = f.bank_name, !.branch_name = f.branch_name,
                !.ifsc_code = f.ifsc_code, !.account_number = enc[1].val,
                !.atm_number = enc[2].val, !.pin = enc[3].val,
                !.validity_start = f.validity_start, !.validity_end = f.validity_end,
                !.cvv = enc[4].val, !.card_type = f.card_type,
                !.card_network = f.card_network, !.family_member = f.family_member,
                !.updated_at = now]

\* UPDATE bank_cards ... WHERE id=?
UpdateRows(card_id, f, enc, now) ==
    [i \in DOMAIN cards |->
        IF i = card_id THEN UpdateValues(cards[i], f, enc, now) ELSE cards[i]]

\* update_card
update_card(card_id, f) ==
    LET enc == EncryptSensitive(f, clock) IN
    /\ clock < MaxClock
    /\ IF \E k \in 1..4 : Raised(enc[k])
       THEN /\ last' = Call("update_card", <<card_id, f>>, FirstRaised(enc))
            /\ UNCHANGED <<cards, clock, written>>
       ELSE /\ cards' = UpdateRows(card_id, f, enc, clock)
            /\ clock' = IF card_id \in DOMAIN cards THEN clock + 1 ELSE clock
            /\ written' = IF card_id \in DOMAIN cards THEN Noted(written, card_id, f) ELSE written
            /\ last' = Call("update_card", <<card_id, f>>, Return(None))
    /\ UNCHANGED <<master_password, settings, seq, set_password, rows_read, issued>>

\* a DELETE without its WHERE clause
DeleteRowsAll(card_id) == <<>>

\* DELETE FROM bank_cards WHERE id = ?
DeleteRows(card_id) == [i \in DOMAIN cards \ {card_id} |-> cards[i]]

\* delete_card
delete_card(card_id) ==
    /\ cards' = DeleteRows(card_id)
    /\ written' = [i \in DOMAIN written \ {card_id} |-> written[i]]
    /\ last' = Call("delete_card", <<card_id>>, Return(None))
    /\ UNCHANGED <<master_password, settings, seq, clock, set_password, rows_read, issued>>

\* a dict whose cvv is the stored column, not decrypted
UnmaskedDictRawCvv(row) ==
    [row EXCEPT !.account_number = decrypt_data(row.account_number).val,
                !.atm_number = decrypt_data(row.atm_number).val,
                !.pin = decrypt_data(row.pin).val]

\* the dict get_card_by_id and get_all_cards_unmasked build of a row
UnmaskedDict(row) ==
    [row EXCEPT !.account_number = decrypt_data(row.account_number).val,
                !.atm_number = decrypt_data(row.atm_number).val,
                !.pin = decrypt_data(row.pin).val,
                !.cvv = decrypt_data(row.cvv).val]

\* a dict whose masks are made of the stored columns, not of the decrypted values
MaskedDictOfStored(row) ==
    [row EXCEPT !.account_number = mask_card_number(row.account_number),
                !.atm_number = mask_card_number(row.atm_number),
                !.pin = mask_cvv(row.pin),
                !.cvv = mask_cvv(row.cvv)]

\* the dict get_all_cards builds of a row
MaskedDict(row) ==
    [row EXCEPT !.account_number = mask_card_number(decrypt_data(row.account_number).val),
                !.atm_number = mask_card_number(decrypt_data(row.atm_number).val),
                !.pin = mask_cvv(decrypt_data(row.pin).val),
                !.cvv = mask_cvv(decrypt_data(row.cvv).val)]

\* the value get_card_by_id returns
CardById(card_id) ==
    IF card_id \in DOMAIN cards THEN UnmaskedDict(cards[card_id]) ELSE None

\* SELECT ... ORDER BY created_at DESC, over the ids of S
RECURSIVE OrderByCreatedDesc(_)
OrderByCreatedDesc(S) ==
    IF S = {} THEN <<>>
    ELSE LET m == CHOOSE i \in S :
                    \A j \in S : cards[j].created_at <= cards[i].created_at
         IN  <<cards[m]>> \o OrderByCreatedDesc(S \ {m})

\* the list get_all_cards returns
AllCards ==
    LET rows == OrderByCreatedDesc(DOMAIN cards) IN
    [k \in 1..Len(rows) |-> MaskedDict(rows[k])]

\* the list get_all_cards_unmasked returns
AllCardsUnmasked ==
    LET rows == OrderByCreatedDesc(DOMAIN cards) IN
    [k \in 1..Len(rows) |-> UnmaskedDict(rows[k])]

\* get_card_by_id
get_card_by_id(card_id) ==
    /\ last' = Call("get_card_by_id", <<card_id>>, Return(CardById(card_id)))
    /\ UNCHANGED <<master_password, settings, cards, seq, clock, set_password, rows_read, written, issued>>

\* get_all_cards
get_all_cards ==
    /\ last' = Call("get_all_cards", <<>>, Return(AllCards))
    /\ UNCHANGED <<master_password, settings, cards, seq, clock, set_password, rows_read, written, issued>>

\* get_all_cards_unmasked
get_all_cards_unmasked ==
    /\ last' = Call("get_all_cards_unmasked", <<>>, Return(AllCardsUnmasked))
    /\ UNCHANGED <<master_password, settings, cards, seq, clock, set_password, rows_read, written, issued>>

(* --------------------------- Bulk Transfer ---------------------------- *)

\* str.split(sep) on a sequence of characters
RECURSIVE SplitOn(_, _)
SplitOn(c, sep) ==
    IF c = <<>> THEN << <<>> >>
    ELSE LET rest == SplitOn(Tail(c), sep) IN
         IF Head(c) = sep THEN << <<>> >> \o rest
         ELSE << <<Head(c)>> \o Head(rest) >> \o Tail(rest)

AllDigits(c) == \A i \in 1..Len(c) : IsDigit(c[i])

RECURSIVE Number(_)
Number(c) ==
    IF c = <<>> THEN 0 ELSE 10 * Number(SubSeq(c, 1, Len(c) - 1)) + DigitVal(c[Len(c)])

IsLeap(y) == (y % 4 = 0 /\ y % 100 # 0) \/ y % 400 = 0

DaysInMonth(y, m) ==
    IF m = 2 THEN (IF IsLeap(y) THEN 29 ELSE 28)
    ELSE IF m \in {4, 6, 9, 11} THEN 30 ELSE 31

\* %m and %d of strptime: one or two digits (%d also a space and a digit), not zero
DatePart(c) ==
    \/ Len(c) \in {1, 2} /\ AllDigits(c) /\ Number(c) >= 1
    \/ Len(c) = 2 /\ c[1] = " " /\ IsDigit(c[2]) /\ c[2] # "0"

DatePartValue(c) == IF c[1] = " " THEN DigitVal(c[2]) ELSE Number(c)

\* datetime.strptime(s, "%Y-%m-%d") raises no ValueError
ParsesAsDate(s) ==
    LET parts == SplitOn(s.chars, "-") IN
    /\ Len(parts) = 3
    /\ Len(parts[1]) = 4 /\ AllDigits(parts[1]) /\ Number(parts[1]) >= 1
    /\ DatePart(parts[2]) /\ parts[2][1] # " " /\ DatePartValue(parts[2]) <= 12
    /\ DatePart(parts[3])
    /\ DatePartValue(parts[3]) <= DaysInMonth(Number(parts[1]), DatePartValue(parts[2]))

\* str(cell.value or default).strip()
CellText(value, default) == Strip(IF Truthy(value) THEN value ELSE default)

Debit == Str(<<"D", "e", "b", "i", "t">>)

RuPay == Str(<<"R", "u", "P", "a", "y">>)

\* lines 468-479: the twelve fields of a worksheet row
ReadRow(row) ==
    [c \in InputFields |->
        CellText(row[c], IF c = "card_type" THEN Debit
                         ELSE IF c = "card_network" THEN RuPay ELSE Empty)]

\* the fields of the all([...]) test, line 482
RequiredFields == InputFields \ {"card_type", "card_network"}

\* an import that does not strip the non-digit characters
CleanNumbersKept(f) == f

\* lines 487-488
CleanNumbers(f) ==
    [f EXCEPT !.account_number = DigitsOnly(@), !.atm_number = DigitsOnly(@)]

\* the checks of lines 482-501: the row reaches add_card
RowAccepted(f) ==
    /\ \A c \in RequiredFields : Truthy(f[c])
    /\ StrLen(CleanNumbers(f).atm_number) = 16
    /\ ParsesAsDate(f.validity_start)
    /\ ParsesAsDate(f.validity_end)

\* one pass of the loop body over a row: the store it leaves, and whether it counted
\* the row as imported; an exception of add_card is caught and the row skipped
ImportRow(st, row) ==
    LET f == ReadRow(row)
        out == AddCardOutcome(st, CleanNumbers(f))
    IN  IF RowAccepted(f) /\ Returned(out.ret)
        THEN [store |-> out.store, imported |-> 1]
        ELSE [store |-> st, imported |-> 0]

\* the for loop of import_from_excel
RECURSIVE ImportRows(_, _, _, _)
ImportRows(rows, st, imported_count, skipped_count) ==
    IF rows = <<>>
    THEN [store |-> st, ret |-> Return(<<imported_count, skipped_count>>)]
    ELSE LET r == ImportRow(st, Head(rows)) IN
         ImportRows(Tail(rows), r.store, imported_count + r.imported,
                    skipped_count + (1 - r.imported))

\* import_from_excel of a file load_workbook cannot open (None) or of a workbook
\* whose worksheet rows 2..max_row are workbook.rows
ImportOutcome(st, workbook) ==
    IF workbook = None
    THEN [store |-> st, ret |-> Raise("Exception", "Failed to import Excel file")]
    ELSE ImportRows(workbook.rows, st, 0, 0)

\* import_from_excel
import_from_excel(workbook) ==
    /\ workbook # None => rows_read + Len(workbook.rows) <= MaxRows
    /\ rows_read' = IF workbook = None THEN rows_read ELSE rows_read + Len(workbook.rows)
    /\ \E out \in {ImportOutcome(Store, workbook)} :
          /\ cards' = out.store.cards
          /\ seq' = out.store.seq
          /\ clock' = out.store.clock
          /\ written' = out.store.written
          /\ issued' = out.store.issued
          /\ last' = Call("import_from_excel", <<workbook>>, out.ret)
    /\ UNCHANGED <<master_password, settings, set_password>>

(* sample worksheet rows *)

SpacedAtm ==
    Str(<<"1", "2", "3", "4", " ", "5", "6", "7", "8", " ",
          "9", "0", "1", "2", " ", "3", "4", "5", "6">>)

Atm15 == Str(<<"1", "2", "3", "4", "5", "6", "7", "8", "9", "0", "1", "2", "3", "4", "5">>)

\* padded bank name, a dashed account number, "1234 5678 9012 3456", valid until a
\* leap day, no card type or network cell
RowSpacedAtm ==
    [FullCard EXCEPT !.bank_name = Str(<<" ", "S", "B", "I", " ">>),
                     !.account_number = Str(<<"1", "2", "-", "3", "4">>),
                     !.atm_number = SpacedAtm,
                     !.validity_end = Str(<<"2", "0", "2", "8", "-", "0", "2", "-", "2", "9">>),
                     !.card_type = None, !.card_network = None]

RowAtm15 == [FullCard EXCEPT !.atm_number = Atm15]

RowNoBank == [FullCard EXCEPT !.bank_name = None]

RowBlankFamily == [FullCard EXCEPT !.family_member = Str(<<" ", " ">>)]

\* validity_start "2024-13-01"
RowBadMonth ==
    [FullCard EXCEPT !.validity_start = Str(<<"2", "0", "2", "4", "-", "1", "3", "-", "0", "1">>)]

\* validity_end "2023-02-29"
RowBadDay ==
    [FullCard EXCEPT !.validity_end = Str(<<"2", "0", "2", "3", "-", "0", "2", "-", "2", "9">>)]

GoodRows == {RowSpacedAtm}

BadRows == {RowAtm15, RowNoBank, RowBlankFamily, RowBadMonth, RowBadDay}

SampleRows == GoodRows \cup BadRows

\* the workbooks tried: an unreadable file, and every sheet of at most MaxRows sample rows
Workbooks ==
    {None} \cup {[rows |-> r] : r \in UNION {[1..n -> SampleRows] : n \in 0..MaxRows}}

(* --------------------------- specification ---------------------------- *)

AuthStep ==
    \/ \E p \in {None} \cup Passwords : Reopen(p)
    \/ \E p \in Passwords, salt \in Salts : set_master_password(p, salt)
    \/ \E p \in Passwords : check_master_password(p)

CipherStep ==
    \/ \E s \in PlainSamples, n \in Nonces : EncryptDataCall(s, <<n, 0>>)
    \/ \E x \in Decryptable : DecryptDataCall(x)

StoreStep ==
    \/ \E f \in CardInputs : add_card(f)
    \/ \E i \in CardIds, f \in CardInputs : update_card(i, f)
    \/ \E i \in CardIds : delete_card(i)
    \/ \E i \in CardIds : get_card_by_id(i)
    \/ get_all_cards
    \/ get_all_cards_unmasked

ImportStep == \E wb \in Workbooks : import_from_excel(wb)

\* every call of the class, in any order
Next == AuthStep \/ CipherStep \/ StoreStep \/ ImportStep

Spec == Init /\ [][Next]_vars

\* the Auth Verifier and the Field Cipher alone: no call of the Credential Store
\* writes master_password or settings, so these are the behaviours of Spec
\* projected on the session and the settings table
CipherNext == AuthStep \/ CipherStep

CipherSpec == Init /\ [][CipherNext]_vars

\* the Auth Verifier and Bulk Transfer's import
ImportNext == AuthStep \/ ImportStep

ImportSpec == Init /\ [][ImportNext]_vars

\* the Auth Verifier and the Credential Store: encrypt_data and decrypt_data are
\* reached through the store's handlers
StoreNext == AuthStep \/ StoreStep

StoreSpec == Init /\ [][StoreNext]_vars

(* ------------------------------ properties ---------------------------- *)

\* the session can derive its key: a master password is held and a salt is stored
KeyAvailable == Returned(get_encryption_key)

\* C1: check_master_password(p) returns True exactly when a password_hash entry
\* exists and p is the password given to the latest set_master_password; so it
\* returns False for every p while set_master_password was never called
C1_CheckAcceptsExactlyTheSetPassword ==
    last.op = "check_master_password" =>
        (last.ret.val <=> (settings # None /\ set_password # None
                           /\ last.args[1] = set_password))

\* check_master_password returned True for the password set_master_password was given
C1_Witness ==
    /\ last.op = "check_master_password"
    /\ last.ret.val
    /\ last.args[1] = set_password

\* C4: decrypt_data of what the preceding encrypt_data(s) returned, the master
\* password and the stored salt being those of the encryption, returns s
C4_RoundTrip ==
    [][(/\ last.op = "encrypt_data"
        /\ Returned(last.ret)
        /\ last'.op = "decrypt_data"
        /\ last'.args[1] = last.ret.val)
       => last'.ret = Return(last.args[1])]_vars

\* decrypt_data was called on a token of the session's key and returned its
\* non-empty plaintext
C4_Witness ==
    /\ last.op = "decrypt_data"
    /\ IsToken(last.args[1])
    /\ KeyAvailable
    /\ last.ret.val = Pin3

\* C5, as stated, for the non-empty arguments (the empty string maps to the empty
\* string without a key): encrypt_data and decrypt_data called while no master
\* password is held raise the "not authenticated" error
C5_LockedCallsSignalNotAuthenticated ==
    (/\ last.op \in {"encrypt_data", "decrypt_data"}
     /\ Truthy(last.args[1])
     /\ ~Truthy(master_password))
    => last.ret = NotAuthenticated

\* C10, as stated: after a check_master_password that returned False the session
\* holds no master password and the key is refused
C10_FailedCheckLocksSession ==
    (last.op = "check_master_password" /\ ~last.ret.val)
    => (~Truthy(master_password) /\ Raised(get_encryption_key))

\* C10, amended: a check_master_password that returns False leaves
\* self.master_password as it was, so a session without a key before the call is
\* without a key after it
C10_FailedCheckKeepsSession ==
    [][(last'.op = "check_master_password" /\ ~last'.ret.val)
       => (/\ master_password' = master_password
           /\ Raised(get_encryption_key) => Raised(get_encryption_key)')]_vars

\* a check_master_password returned False in a session that holds its key
C10_Witness ==
    /\ last.op = "check_master_password"
    /\ ~last.ret.val
    /\ KeyAvailable

(* the rows of the store, for the properties *)

Sensitive == {SensitiveFields[k] : k \in 1..4}

\* the row was written in a session with the key the session has now
WrittenWithCurrentKey(id) == KeyAvailable /\ written[id].key = get_encryption_key

\* the row has not been updated since add_card made it
NotUpdated(id) == cards[id].created_at = cards[id].updated_at

\* C2, as stated: no sensitive column of a row holds the value that was passed in;
\* all four hold ciphertext
C2_NoColumnHoldsItsArgument ==
    \A id \in DOMAIN cards : \A c \in Sensitive :
        IsToken(cards[id][c]) /\ cards[id][c] # written[id].inputs[c]

\* C2, amended: in every row, each non-empty sensitive argument of the write is
\* stored as a Fernet token of that argument, made by that write under the key of
\* its session, never as the argument itself, and each empty one as the empty string
C2_NonEmptySensitiveStoredEncrypted ==
    \A id \in DOMAIN cards : \A c \in Sensitive :
        IF Truthy(written[id].inputs[c])
        THEN /\ IsToken(cards[id][c])
             /\ cards[id][c] # written[id].inputs[c]
             /\ cards[id][c].data = written[id].inputs[c]
             /\ Returned(written[id].key)
             /\ cards[id][c].key = written[id].key.val
             /\ cards[id][c].iv[1] = cards[id].updated_at
        ELSE cards[id][c] = Empty

\* a row made by add_card was rewritten by update_card with an empty and a
\* non-empty sensitive argument
C2_Witness ==
    \E id \in DOMAIN cards :
        /\ ~NotUpdated(id)
        /\ written[id].inputs = PartialCard

\* C3: get_card_by_id(id) of a row add_card made and no update_card has rewritten,
\* in a session that has the key the row was written with, returns the twelve
\* arguments of that add_card
C3_GetReturnsWhatAddStored ==
    (/\ last.op = "get_card_by_id"
     /\ last.args[1] \in DOMAIN cards
     /\ NotUpdated(last.args[1])
     /\ WrittenWithCurrentKey(last.args[1]))
    => \A c \in InputFields : last.ret.val[c] = written[last.args[1]].inputs[c]

\* get_card_by_id(1) returned the arguments of add_card after a second row was
\* added and deleted
C3_Witness ==
    /\ last.op = "get_card_by_id"
    /\ last.args[1] = 1
    /\ 1 \in DOMAIN cards
    /\ seq = 2
    /\ 2 \notin DOMAIN cards
    /\ WrittenWithCurrentKey(1)
    /\ last.ret.val.account_number = Account16
    /\ last.ret.val.cvv = Cvv3

\* the row was written under a master password, and the session now holds another
WrittenUnderOtherPassword(id) ==
    /\ Returned(written[id].key)
    /\ Truthy(master_password)
    /\ master_password # written[id].key.val.kdf

\* C6: get_card_by_id of a row written under one master password, in a session
\* that holds a different one, raises nothing and returns each non-empty sensitive
\* value as the stored ciphertext, never as the plaintext
C6_OtherPasswordReadsCiphertext ==
    (/\ last.op = "get_card_by_id"
     /\ last.args[1] \in DOMAIN cards
     /\ WrittenUnderOtherPassword(last.args[1]))
    => /\ Returned(last.ret)
       /\ \A c \in Sensitive :
            Truthy(written[last.args[1]].inputs[c]) =>
                /\ last.ret.val[c] = cards[last.args[1]][c]
                /\ last.ret.val[c] # written[last.args[1]].inputs[c]

\* a row written under "a" was read after set_master_password("b")
C6_Witness ==
    /\ last.op = "get_card_by_id"
    /\ last.args[1] \in DOMAIN cards
    /\ written[last.args[1]].inputs = FullCard
    /\ Returned(written[last.args[1]].key)
    /\ written[last.args[1]].key.val.kdf = Str(<<"a">>)
    /\ set_password = Str(<<"b">>)
    /\ master_password = Str(<<"b">>)

\* the masks the claim describes, of a plaintext number and of a plaintext PIN or CVV
ClaimedNumberMask(s) ==
    IF Len(s.chars) >= 16
    THEN Str(SubSeq(s.chars, 1, 4) \o SEPARATOR \o SubSeq(s.chars, Len(s.chars) - 3, Len(s.chars)))
    ELSE PLACEHOLDER

ClaimedCodeMask(s) ==
    IF Len(s.chars) = 3 THEN Str(<<"*", "*", "*">>) ELSE Str(<<"*", "*">>)

MasksOfPlaintext(d) ==
    /\ d.account_number = ClaimedNumberMask(written[d.id].inputs.account_number)
    /\ d.atm_number = ClaimedNumberMask(written[d.id].inputs.atm_number)
    /\ d.pin = ClaimedCodeMask(written[d.id].inputs.pin)
    /\ d.cvv = ClaimedCodeMask(written[d.id].inputs.cvv)

\* C8, as stated: every record of get_all_cards carries the masks of its plaintext
C8_EveryRecordMaskedFromPlaintext ==
    last.op = "get_all_cards" =>
        \A k \in 1..Len(last.ret.val) : MasksOfPlaintext(last.ret.val[k])

\* C8, amended: every record of get_all_cards that was written with the key the
\* session has now carries the masks of its plaintext
C8_DecryptableRecordMaskedFromPlaintext ==
    last.op = "get_all_cards" =>
        \A k \in 1..Len(last.ret.val) :
            WrittenWithCurrentKey(last.ret.val[k].id) => MasksOfPlaintext(last.ret.val[k])

\* get_all_cards listed two rows of the session's key: one of 16-character numbers
\* and 3-character codes, one of a short number, a 4-character PIN and empty values
C8_Witness ==
    /\ last.op = "get_all_cards"
    /\ Len(last.ret.val) = 2
    /\ \A k \in 1..2 : WrittenWithCurrentKey(last.ret.val[k].id)
    /\ {written[last.ret.val[k].id].inputs : k \in 1..2} = {FullCard, PartialCard}

\* the step is a call of update_card or delete_card that names an id not in the store
AbsentIdStep ==
    /\ last'.op \in {"update_card", "delete_card"}
    /\ last'.args[1] \notin DOMAIN cards

StoreUntouched ==
    /\ cards' = cards
    /\ seq' = seq
    /\ settings' = settings
    /\ master_password' = master_password

\* C9, as stated: update_card and delete_card of an absent id raise nothing and
\* leave the store, the settings entry and the session as they were
C9_AbsentIdNeverRaises ==
    [][AbsentIdStep => (Returned(last'.ret) /\ StoreUntouched)]_vars

\* C9, amended: update_card and delete_card of an absent id leave the store, the
\* settings entry and the session as they were; delete_card raises nothing, and
\* update_card raises nothing when the session has its key
C9_AbsentIdLeavesStore ==
    [][AbsentIdStep =>
        /\ StoreUntouched
        /\ (last'.op = "delete_card" \/ KeyAvailable) => Returned(last'.ret)]_vars

\* update_card of an absent id returned in a session with its key, the store not empty
C9_Witness ==
    /\ last.op = "update_card"
    /\ last.args[1] \notin DOMAIN cards
    /\ Returned(last.ret)
    /\ KeyAvailable
    /\ DOMAIN cards # {}

\* the rows of a workbook that the claim says are imported
GoodRowCount(rows) == Cardinality({i \in 1..Len(rows) : rows[i] \in GoodRows})

\* C7: import_from_excel of a workbook of N rows returns (imported, skipped) with
\* imported + skipped = N; in a session with its key imported is the number of rows
\* whose required fields, ATM number and dates are valid, and each of them adds one
\* row to the store; a row whose add_card raises (no key) is skipped
C7_ImportCountsRows ==
    [][(last'.op = "import_from_excel" /\ last'.args[1] # None)
       => LET rows == last'.args[1].rows
              good == IF KeyAvailable THEN GoodRowCount(rows) ELSE 0
          IN  /\ last'.ret = Return(<<good, Len(rows) - good>>)
              /\ DOMAIN cards' = DOMAIN cards \cup ((seq + 1)..(seq + good))
              /\ \A i \in DOMAIN cards : cards'[i] = cards[i]]_vars

\* an import of two rows, one valid and one not, returned (1, 1) and left one row more
C7_Witness ==
    /\ last.op = "import_from_excel"
    /\ last.ret = Return(<<1, 1>>)
    /\ KeyAvailable
    /\ Cardinality(DOMAIN cards) = seq
    /\ seq >= 1

\* C11: every id add_card returns is one no earlier add_card returned, the ids of
\* rows deleted since among them, and it is the id of the one row the call adds; no
\* two rows of the store carry the same id
C11_AddCardIdsNeverReused ==
    /\ [](\A i, j \in DOMAIN cards : cards[i].id = cards[j].id => i = j)
    /\ [][(last'.op = "add_card" /\ Returned(last'.ret))
          => /\ last'.ret.val \notin issued
             /\ last'.ret.val \notin DOMAIN cards
             /\ DOMAIN cards' = DOMAIN cards \cup {last'.ret.val}
             /\ cards'[last'.ret.val].id = last'.ret.val]_vars

\* add_card returned 2 after the row of id 1 had been deleted
C11_Witness ==
    /\ last.op = "add_card"
    /\ last.ret = Return(2)
    /\ issued = {1, 2}
    /\ DOMAIN cards = {2}

\* the session holds no master password
Locked == ~Truthy(master_password)

\* the dict of an unmasked read gives every non-empty sensitive value of its row as
\* the stored token, not as the plaintext
YieldsCiphertext(d) ==
    \A c \in Sensitive :
        Truthy(written[d.id].inputs[c]) =>
            /\ d[c] = cards[d.id][c]
            /\ IsToken(d[c])
            /\ d[c] # written[d.id].inputs[c]

\* the dict of get_all_cards carries the masks of the stored columns: for a non-empty
\* value the number mask is made of the ends of the token and the code mask is "**"
MasksOfCiphertext(d) ==
    /\ d.account_number = mask_card_number(cards[d.id].account_number)
    /\ d.atm_number = mask_card_number(cards[d.id].atm_number)
    /\ d.pin = mask_cvv(cards[d.id].pin)
    /\ d.cvv = mask_cvv(cards[d.id].cvv)
    /\ \A c \in {"account_number", "atm_number"} :
          Truthy(written[d.id].inputs[c]) =>
              d[c] = Str(<<"g", "A", "A", "A">> \o SEPARATOR \o Last4(cards[d.id][c]))
    /\ \A c \in {"pin", "cvv"} :
          Truthy(written[d.id].inputs[c]) => d[c] = Str(<<"*", "*">>)

\* C12: while the session holds no master password, get_card_by_id and
\* get_all_cards_unmasked return each non-empty sensitive field of every record as the
\* stored ciphertext, never the plaintext, and get_all_cards returns the masks of
\* that ciphertext
C12_LockedReadsYieldNoPlaintext ==
    Locked =>
        /\ (last.op = "get_card_by_id" /\ last.args[1] \in DOMAIN cards)
              => YieldsCiphertext(last.ret.val)
        /\ last.op = "get_all_cards_unmasked"
              => /\ Len(last.ret.val) = Cardinality(DOMAIN cards)
                 /\ \A k \in 1..Len(last.ret.val) : YieldsCiphertext(last.ret.val[k])
        /\ last.op = "get_all_cards"
              => /\ Len(last.ret.val) = Cardinality(DOMAIN cards)
                 /\ \A k \in 1..Len(last.ret.val) : MasksOfCiphertext(last.ret.val[k])

\* get_all_cards listed, in a session without a master password, two records written
\* before: one of four non-empty sensitive values, one with empty ones
C12_Witness ==
    /\ Locked
    /\ last.op = "get_all_cards"
    /\ Len(last.ret.val) = 2
    /\ {written[last.ret.val[k].id].inputs : k \in 1..2} = {FullCard, PartialCard}

====
